---- MODULE Spec2Model ----
(***************************************************************************)
(* Model of the image proxy worker (Hono app on the edge runtime).         *)
(*                                                                         *)
(* Two revisions of the worker are in the repository: src/src/index.ts     *)
(* ("index") and src/unnamed/part_000 ("phased", the revision with the     *)
(* phase marker, Optimize Info and reportToDiscord).  The variable         *)
(* `revision` fixes which one is deployed; every handler step is modelled  *)
(* for both.                                                               *)
(*                                                                         *)
(* Request number k runs in slot k.  Between two awaits the handler is      *)
(* atomic, so there is one action per await of it: cache.match, the        *)
(* origin fetch with its body read, optimizeImage, the error handler, and  *)
(* the detached cache.put handed to waitUntil.                             *)
(***************************************************************************)
EXTENDS Integers, Sequences, FiniteSets, TLC

\* ------------------------------------------------------------------ bounds
MaxRequests == 2     \* requests issued in one behaviour, each in its own slot
MaxClock == 1        \* ticks of the wall clock read by new Date()

Slots == 1..MaxRequests

\* ------------------------------------------------------------ JS values
Undefined == "undefined"
NaN == [kind |-> "NaN", value |-> 0]
UndefinedNumber == [kind |-> "undefined", value |-> 0]
Number(n) == [kind |-> "number", value |-> n]

Revisions == {"index", "phased"}

\* ------------------------------------------------------------ constants
FOREVER_CACHE_CONTROL == "public, max-age=31536000, immutable"

\* supports: ["image/webp", "*/*", "image/*"], default: "identity"
Supports == {"image/webp", "*/*", "image/*"}
AcceptDefault == "identity"

\* the content types proxied without transformation
UnsupportedTypes == {"image/svg+xml", "image/gif"}

Phases ==
  << "parse accept header", "parse url from query", "fetch image from cache",
     "fetch image from origin", "parse image", "unsupported image proxy",
     "optimize image", "optimize image, after copy", "optimized image proxy" >>

\* ------------------------------------------------------------ inputs
\* A query value is a sequence of tokens; the request URL is its query string,
\* a sequence of <<name, value>> parameters.
ValidImageUrl == << "https:", "//", "o.example", "/a.png" >>

RequestUrls ==
  { << >>,                                                \* no `url`
    << << "url", << >> >> >>,                             \* url=
    << << "url", << "not-a-url" >> >> >>,                 \* no scheme
    << << "url", << "https:", "//" >> >>,                 \* empty host
       << "w", << "3", "0", "0" >> >> >>,
    << << "url", ValidImageUrl >> >>,
    << << "url", ValidImageUrl >>, << "w", << "3", "0", "0" >> >>,
       << "q", << "8", "p", "x" >> >> >>,
    << << "url", ValidImageUrl >>, << "w", << "a", "b" >> >>,
       << "q", << >> >> >> }

\* An Accept header, already split at "," and ";": entries of type and q (in
\* tenths).  The empty sequence is the absent header.
AcceptEntry(t, q) == [type |-> t, q |-> q]
NoAcceptHeader == << >>
AcceptHeaders ==
  { NoAcceptHeader,
    << AcceptEntry("image/webp", 10), AcceptEntry("image/jpeg", 10),
       AcceptEntry("image/png", 10) >>,
    << AcceptEntry("image/jpeg", 10), AcceptEntry("image/png", 10) >>,
    << AcceptEntry("image/webp", 5), AcceptEntry("*/*", 8) >>,
    << AcceptEntry("image/*", 10), AcceptEntry("image/webp", 10) >> }

\* What the origin can answer with: a declared content type ("" when the
\* header is missing) and the body bytes.
OriginImages ==
  { [contentType |-> "image/png", bytes |-> "png", byteLength |-> 3],
    [contentType |-> "image/jpeg", bytes |-> "jpg", byteLength |-> 4],
    [contentType |-> "image/gif", bytes |-> "gif", byteLength |-> 5],
    [contentType |-> "image/svg+xml", bytes |-> "svg", byteLength |-> 6],
    [contentType |-> "", bytes |-> "raw", byteLength |-> 2] }

\* ------------------------------------------------------------ pure helpers
\* new URL(url) without a base: parses iff the string starts with a scheme,
\* and a special scheme has a non-empty host.
SchemeTokens == {"https:", "http:", "data:"}
SpecialSchemes == {"https:", "http:"}

isValidUrlAlways(url) == TRUE
isValidUrl(url) ==
  /\ Len(url) >= 1
  /\ url[1] \in SchemeTokens
  /\ url[1] \in SpecialSchemes => Len(url) >= 3 /\ url[3] # ""

\* c.req.query(name): the first parameter of that name, or undefined
HasQuery(reqUrl, name) == \E i \in 1..Len(reqUrl) : reqUrl[i][1] = name

Query(reqUrl, name) ==
  LET i == CHOOSE i \in 1..Len(reqUrl) :
             /\ reqUrl[i][1] = name
             /\ \A j \in 1..(i - 1) : reqUrl[j][1] # name
  IN reqUrl[i][2]

\* a JS string is truthy iff it is not empty (undefined is falsy)
Truthy(reqUrl, name) == HasQuery(reqUrl, name) /\ Query(reqUrl, name) # << >>

Digits == {"0", "1", "2", "3", "4", "5", "6", "7", "8", "9"}
DigitValue(d) ==
  CASE d = "0" -> 0 [] d = "1" -> 1 [] d = "2" -> 2 [] d = "3" -> 3
    [] d = "4" -> 4 [] d = "5" -> 5 [] d = "6" -> 6 [] d = "7" -> 7
    [] d = "8" -> 8 [] d = "9" -> 9

RECURSIVE DigitPrefix(_, _, _)
\* the value of the longest digit prefix of s from position i, acc so far
DigitPrefix(s, i, acc) ==
  IF i <= Len(s) /\ s[i] \in Digits
  THEN DigitPrefix(s, i + 1, acc * 10 + DigitValue(s[i]))
  ELSE acc

\* parseInt(s): the integer of the leading digits, NaN when there is none
parseInt(s) ==
  LET neg == Len(s) >= 1 /\ s[1] = "-"
      from == IF Len(s) >= 1 /\ s[1] \in {"-", "+"} THEN 2 ELSE 1
  IN IF from <= Len(s) /\ s[from] \in Digits
     THEN Number(IF neg THEN 0 - DigitPrefix(s, from, 0)
                 ELSE DigitPrefix(s, from, 0))
     ELSE NaN

\* width ? parseInt(width) : undefined
ParamInt(reqUrl, name) ==
  IF Truthy(reqUrl, name) THEN parseInt(Query(reqUrl, name))
  ELSE UndefinedNumber

\* accepts(c, {header: "Accept", supports, default}): the default when the
\* header is absent; otherwise the entries are sorted by q, descending and
\* stable, and the first one whose type is supported is taken.
accepts(header) ==
  LET sup == { i \in 1..Len(header) : header[i].type \in Supports }
  IN IF header = NoAcceptHeader \/ sup = {}
     THEN AcceptDefault
     ELSE LET best == CHOOSE i \in sup :
                        \A j \in sup :
                          \/ header[j].q < header[i].q
                          \/ (header[j].q = header[i].q /\ i <= j)
          IN header[best].type

\* const isWebp = type === "image/webp"
IsWebpWildcard(type) == type \in {"image/webp", "*/*", "image/*"}
IsWebp(type) == type = "image/webp"

BoolString(b) == IF b THEN "true" ELSE "false"

\* url.searchParams.append("webp", isWebp.toString()); new Request(url.toString())
CacheKeyShared(reqUrl, isWebp) == reqUrl
CacheKey(reqUrl, isWebp) == Append(reqUrl, << "webp", << BoolString(isWebp) >> >>)

\* ------------------------------------------------------------ responses
Header(name, value) == << name, value >>

\* c.text(body, {status})
Text(body, status) ==
  [ status |-> status,
    headers |-> { Header("Content-Type", "text/plain; charset=UTF-8") },
    body |-> [kind |-> "text", text |-> body] ]

\* what the slot holds while no response has been handed back
NoResponse == [status |-> 0, headers |-> {}, body |-> [kind |-> "none"]]

\* new Date().toUTCString()
DateString(t) == ToString(t)

\* imgRes.headers.get("content-type") || undefined
DeclaredType(img) == IF img.contentType = "" THEN Undefined ELSE img.contentType

\* contentType && ["image/svg+xml", "image/gif"].includes(contentType)
IsUnsupportedNever(contentType) == FALSE
IsUnsupported(contentType) ==
  contentType # Undefined /\ contentType \in UnsupportedTypes

\* isWebp ? "webp" : contentType === "image/jpeg" ? "jpeg" : "png"
FormatKeepsWebp(isWebp, contentType) ==
  IF isWebp \/ contentType = "image/webp" THEN "webp"
  ELSE IF contentType = "image/jpeg" THEN "jpeg" ELSE "png"
FormatJpegDefault(isWebp, contentType) ==
  IF isWebp THEN "webp" ELSE IF contentType = "image/png" THEN "png" ELSE "jpeg"
Format(isWebp, contentType) ==
  IF isWebp THEN "webp" ELSE IF contentType = "image/jpeg" THEN "jpeg" ELSE "png"

\* optimizeImage({image, width, quality, format}): the external codec, a
\* function of its arguments
optimizeImage(image, width, quality, format) ==
  [image |-> image, width |-> width, quality |-> quality, format |-> format]

\* new Response(srcImage, {headers: {Content-Type, Cache-Control}})
PassThroughResponseUncached(srcImage, contentType) ==
  [ status |-> 200,
    headers |-> { Header("Content-Type", contentType),
                  Header("Cache-Control", "no-store") },
    body |-> [kind |-> "source", bytes |-> srcImage] ]
PassThroughResponse(srcImage, contentType) ==
  [ status |-> 200,
    headers |-> { Header("Content-Type", contentType),
                  Header("Cache-Control", FOREVER_CACHE_CONTROL) },
    body |-> [kind |-> "source", bytes |-> srcImage] ]

\* new Response(image, {headers: {Content-Type, date, Cache-Control}})
OptimizedResponse(image, format, t) ==
  [ status |-> 200,
    headers |-> { Header("Content-Type", "image/" \o format),
                  Header("date", DateString(t)),
                  Header("Cache-Control", FOREVER_CACHE_CONTROL) },
    body |-> [kind |-> "optimized", image |-> image] ]

HeaderOf(response, name) ==
  IF \E h \in response.headers : h[1] = name
  THEN (CHOOSE h \in response.headers : h[1] = name)[2]
  ELSE Undefined

\* ------------------------------------------------------------ state
VARIABLES
  revision,      \* which revision of the worker is deployed
  now,           \* the wall clock
  nreq,          \* requests issued so far
  cache,         \* caches.default: cache key -> [res, by] (by: the storer's slot)
  pending,       \* detached cache.put tasks handed to waitUntil, not yet run
  pc,            \* per slot: where the handler is
  req,           \* per slot: the request (url, accept)
  local,         \* per slot: the handler's constants
  phase,         \* per slot: c.get("phase")
  marks,         \* per slot: the values given to c.set("phase", ...), in order
  optimizeInfo,  \* per slot: c.get("optimizeInfo"), << >> while unset
  err,           \* per slot: the exception that escaped the handler
  res,           \* per slot: the response handed back to the client
  calls,         \* per slot: calls made for this request, by collaborator
  hitBy,         \* per slot: the storer of the entry served from the cache, 0 if none
  reports,       \* per slot: bodies of the notification POSTs sent
  delivery       \* per slot: how reporting ended ("none" while it has not run)

vars ==
  << revision, now, nreq, cache, pending, pc, req, local, phase, marks,
     optimizeInfo, err, res, calls, hitBy, reports, delivery >>

NoCalls ==
  [ match |-> 0, fetch |-> 0, read |-> 0, optimize |-> 0, put |-> 0,
    report |-> 0 ]

NoLocal ==
  [ type |-> Undefined, isWebp |-> FALSE, imageUrl |-> << >>,
    cacheKey |-> << >>, widthInt |-> UndefinedNumber,
    qualityInt |-> UndefinedNumber, srcImage |-> Undefined,
    contentType |-> Undefined, format |-> Undefined ]

NoRequest == [url |-> << >>, accept |-> NoAcceptHeader]

Init ==
  /\ revision \in Revisions
  /\ now = 0
  /\ nreq = 0
  /\ cache = << >>
  /\ pending = {}
  /\ pc = [r \in Slots |-> "idle"]
  /\ req = [r \in Slots |-> NoRequest]
  /\ local = [r \in Slots |-> NoLocal]
  /\ phase = [r \in Slots |-> Undefined]
  /\ marks = [r \in Slots |-> << >>]
  /\ optimizeInfo = [r \in Slots |-> << >>]
  /\ err = [r \in Slots |-> "none"]
  /\ res = [r \in Slots |-> NoResponse]
  /\ calls = [r \in Slots |-> NoCalls]
  /\ hitBy = [r \in Slots |-> 0]
  /\ reports = [r \in Slots |-> << >>]
  /\ delivery = [r \in Slots |-> "none"]

\* c.set("phase", p): only the phased revision has the marker
Phase(p) == IF revision = "phased" THEN p ELSE Undefined

\* the c.set("phase", ...) calls of one stretch of the handler, in the order
\* of the code
SetPhasesShared(r, ps) ==
  /\ phase' = [o \in Slots |-> Phase(ps[Len(ps)])]
  /\ marks' = [marks EXCEPT ![r] = IF revision = "phased" THEN @ \o ps ELSE @]
SetPhasesReturning(r, ps) ==
  /\ phase' = [phase EXCEPT ![r] = Phase(Phases[1])]
  /\ marks' = [marks EXCEPT ![r] =
                 IF revision = "phased" THEN @ \o ps \o << Phases[1] >> ELSE @]
SetPhases(r, ps) ==
  /\ phase' = [phase EXCEPT ![r] = Phase(ps[Len(ps)])]
  /\ marks' = [marks EXCEPT ![r] = IF revision = "phased" THEN @ \o ps ELSE @]

Finished(r) == pc[r] \in {"done", "uncaught"}

\* the handler returns `response` to the client
Respond(r, response) ==
  /\ pc' = [pc EXCEPT ![r] = "done"]
  /\ res' = [res EXCEPT ![r] = response]

\* an exception escapes the handler: app.onError runs next
Throw(r, what) ==
  /\ pc' = [pc EXCEPT ![r] = "error"]
  /\ err' = [err EXCEPT ![r] = what]
  /\ UNCHANGED res

\* c.executionCtx.waitUntil(cache.put(cacheKey, response.clone()))
PutTaskNoClone(r, response) ==
  [ key |-> local[r].cacheKey, by |-> r,
    res |-> [response EXCEPT !.body = [kind |-> "none"]] ]
PutTask(r, response) ==
  [key |-> local[r].cacheKey, res |-> response, by |-> r]

\* ------------------------------------------------------------ the handler
\* app.get("*"), up to the await of cache.match: negotiation, validation of
\* `url`, the cache key, and the lookup issued.
Receive(r, u, a) ==
  /\ pc[r] = "idle"
  /\ r = nreq + 1
  /\ nreq' = nreq + 1
  /\ req' = [req EXCEPT ![r] = [url |-> u, accept |-> a]]
  /\ LET type == accepts(a)
         isWebp == IsWebp(type)
         negotiated == [NoLocal EXCEPT !.type = type, !.isWebp = isWebp]
     IN IF ~Truthy(u, "url") \/ ~isValidUrl(Query(u, "url"))
        THEN /\ local' = [local EXCEPT ![r] = negotiated]
             /\ SetPhases(r, << "parse accept header",
                                "parse url from query" >>)
             /\ calls' = [calls EXCEPT ![r] = NoCalls]
             /\ Respond(r, Text("valid url is required", 400))
        ELSE /\ local' = [local EXCEPT ![r] =
                            [negotiated EXCEPT !.imageUrl = Query(u, "url"),
                                               !.cacheKey = CacheKey(u, isWebp)]]
             /\ SetPhases(r, << "parse accept header", "parse url from query",
                                "fetch image from cache" >>)
             /\ calls' = [calls EXCEPT ![r] = [NoCalls EXCEPT !.match = 1]]
             /\ pc' = [pc EXCEPT ![r] = "match"]
             /\ UNCHANGED res
  /\ UNCHANGED << revision, now, cache, pending, optimizeInfo, err, hitBy,
                  reports, delivery >>

\* cache.match(cacheKey) rejects
MatchThrows(r) ==
  /\ Throw(r, "cache.match")
  /\ UNCHANGED << local, phase, marks, optimizeInfo, calls, hitBy >>

\* if (cachedResponse) return cachedResponse
CachedResponseRebuilt(entry) ==
  [entry.res EXCEPT !.headers = @ \cup { Header("cf-cache-status", "HIT") }]
CachedResponse(entry) == entry.res

MatchHit(r) ==
  /\ local[r].cacheKey \in DOMAIN cache
  /\ Respond(r, CachedResponse(cache[local[r].cacheKey]))
  /\ hitBy' = [hitBy EXCEPT ![r] = cache[local[r].cacheKey].by]
  /\ UNCHANGED << local, phase, marks, optimizeInfo, calls, err >>

\* a miss: width and quality are read and the origin fetch is issued
MatchMiss(r) ==
  /\ local[r].cacheKey \notin DOMAIN cache
  /\ local' = [local EXCEPT ![r].widthInt = ParamInt(req[r].url, "w"),
                            ![r].qualityInt = ParamInt(req[r].url, "q")]
  /\ SetPhases(r, << "fetch image from origin" >>)
  /\ calls' = [calls EXCEPT ![r].fetch = 1]
  /\ pc' = [pc EXCEPT ![r] = "fetch"]
  /\ UNCHANGED << optimizeInfo, err, res, hitBy >>

CacheMatch(r) ==
  /\ pc[r] = "match"
  /\ MatchThrows(r) \/ MatchHit(r) \/ MatchMiss(r)
  /\ UNCHANGED << revision, now, nreq, cache, pending, req, reports, delivery >>

NotFound == Text("image not found", 404)

\* fetch(imageUrl, ...) rejects: index catches it (.catch(() => [])), phased
\* lets it escape
FetchRejects(r) ==
  /\ IF revision = "index"
     THEN Respond(r, NotFound) /\ UNCHANGED err
     ELSE Throw(r, "fetch")
  /\ UNCHANGED << phase, marks, calls >>

\* the origin answers with a non-success status: !imgRes.ok
FetchNotOk(r) ==
  /\ Respond(r, NotFound)
  /\ UNCHANGED << err, phase, marks, calls >>

\* the origin answers ok and arrayBuffer() rejects
ReadFails(r) ==
  /\ calls' = [calls EXCEPT ![r].read = 1]
  /\ SetPhases(r, << "parse image" >>)
  /\ IF revision = "index"
     THEN Respond(r, NotFound) /\ UNCHANGED err
     ELSE Throw(r, "arrayBuffer")

\* c.set("optimizeInfo", {width, quality, originalFormat, bytes})
OptimizeInfoUnparsed(r, img) ==
  [ width |-> UndefinedNumber, quality |-> UndefinedNumber,
    originalFormat |-> DeclaredType(img), bytes |-> img.byteLength ]
OptimizeInfo(r, img) ==
  [ width |-> local[r].widthInt, quality |-> local[r].qualityInt,
    originalFormat |-> DeclaredType(img), bytes |-> img.byteLength ]

\* the origin answers ok and the body is read: the pass-through of the
\* unsupported types, or the format decision and the optimizer call issued
FetchOk(r, img) ==
  LET contentType == DeclaredType(img)
      response == PassThroughResponse(img.bytes, contentType)
  IN /\ optimizeInfo' = [optimizeInfo EXCEPT ![r] =
                           IF revision = "phased"
                           THEN << OptimizeInfo(r, img) >> ELSE << >>]
     /\ UNCHANGED err
     /\ IF IsUnsupported(contentType)
        THEN /\ local' = [local EXCEPT ![r].srcImage = img.bytes,
                                       ![r].contentType = contentType]
             /\ SetPhases(r, << "parse image", "unsupported image proxy" >>)
             /\ calls' = [calls EXCEPT ![r].read = 1, ![r].put = 1]
             /\ pending' = pending \cup { PutTask(r, response) }
             /\ Respond(r, response)
        ELSE /\ local' = [local EXCEPT ![r].srcImage = img.bytes,
                                       ![r].contentType = contentType,
                                       ![r].format =
                                         Format(local[r].isWebp, contentType)]
             /\ SetPhases(r, << "parse image", "unsupported image proxy",
                                "optimize image",
                                "optimize image, after copy" >>)
             /\ calls' = [calls EXCEPT ![r].read = 1, ![r].optimize = 1]
             /\ pc' = [pc EXCEPT ![r] = "optimize"]
             /\ UNCHANGED << res, pending >>

OriginFetch(r, images) ==
  /\ pc[r] = "fetch"
  /\ \/ /\ FetchRejects(r) \/ FetchNotOk(r) \/ ReadFails(r)
        /\ UNCHANGED << local, optimizeInfo, pending >>
     \/ \E img \in images : FetchOk(r, img)
  /\ UNCHANGED << revision, now, nreq, cache, req, hitBy, reports, delivery >>

\* new Date(): the clock has not gone back since it was last read
Times == now..MaxClock

\* optimizeImage(...) rejects
OptimizeThrows(r) ==
  /\ Throw(r, "optimizeImage")
  /\ UNCHANGED << phase, marks, calls, pending >>

\* optimizeImage(...) resolves: the response is assembled, the store is
\* handed to waitUntil and the response is returned
OptimizeReturns(r, t) ==
  LET image == optimizeImage(local[r].srcImage, local[r].widthInt,
                             local[r].qualityInt, local[r].format)
      response == OptimizedResponse(image, local[r].format, t)
  IN /\ now' = t
     /\ SetPhases(r, << "optimized image proxy" >>)
     /\ calls' = [calls EXCEPT ![r].put = 1]
     /\ pending' = pending \cup { PutTask(r, response) }
     /\ Respond(r, response)
     /\ UNCHANGED err

Optimize(r) ==
  /\ pc[r] = "optimize"
  /\ \/ OptimizeThrows(r) /\ UNCHANGED now
     \/ \E t \in Times : OptimizeReturns(r, t)
  /\ UNCHANGED << revision, nreq, cache, req, local, optimizeInfo, hitBy,
                  reports, delivery >>

\* ------------------------------------------------------------ app.onError
InternalServerError == Text("internal server error", 500)

\* JSON.stringify(info, null, 2), as the lines of the document: a property
\* whose value is undefined is left out, NaN is written null, and an info
\* that was never set gives the one word undefined
JSONNumber(key, n) ==
  CASE n.kind = "undefined" -> << >>
    [] n.kind = "NaN" -> << << key, "null" >> >>
    [] OTHER -> << << key, ToString(n.value) >> >>

JSONString(key, str) ==
  IF str = Undefined THEN << >> ELSE << << key, str >> >>

JSONStringify(info) ==
  IF info = << >> THEN << << Undefined >> >>
  ELSE JSONNumber("width", info[1].width)
         \o JSONNumber("quality", info[1].quality)
         \o JSONString("originalFormat", info[1].originalFormat)
         \o JSONNumber("bytes", Number(info[1].bytes))

\* ERROR_MESSAGE(err, c.req.url, c.get("phase"), c.get("optimizeInfo")): the
\* fields of the message, without the time in its heading
ERROR_MESSAGE(r) ==
  IF revision = "phased"
  THEN [ url |-> req[r].url, phase |-> phase[r], err |-> err[r],
         info |-> JSONStringify(optimizeInfo[r]) ]
  ELSE [ url |-> req[r].url, err |-> err[r] ]

\* What app.onError hands back, by revision.  `configured`: whether
\* c.env.DISCORD_WEBHOOK_URL is set; `outcome`: how the POST ended ("ok",
\* "notOk": a non-success status, "rejects": the fetch itself failed).
\* NoResponse: the handler threw, no response comes from the app.
onErrorIndex(configured, outcome) ==
  IF ~configured
  THEN Text("internal server error (no webhook url)", 500)
  ELSE CASE outcome = "ok" -> Text("internal server error (reported)", 500)
         [] outcome = "notOk" ->
              Text("internal server error (failed to report)", 500)
         [] OTHER -> NoResponse

\* reportToDiscord returns without a POST when no webhook is set, and throws
\* "failed to report error" on a non-success answer
onErrorPhasedNeedsWebhook(configured, outcome) ==
  IF configured /\ outcome = "ok" THEN InternalServerError ELSE NoResponse
onErrorPhased(configured, outcome) ==
  IF ~configured
  THEN InternalServerError
  ELSE CASE outcome = "ok" -> InternalServerError
         [] OTHER -> NoResponse

PostOutcomes == {"ok", "notOk", "rejects"}

\* reportToDiscord: one POST of the message when a webhook is set, none
\* otherwise; nothing is sent again after a failure
ReportPostsRetried(r, configured, outcome) ==
  IF ~configured THEN << >>
  ELSE IF outcome = "ok" THEN << ERROR_MESSAGE(r) >>
  ELSE << ERROR_MESSAGE(r), ERROR_MESSAGE(r) >>
ReportPosts(r, configured, outcome) ==
  IF configured THEN << ERROR_MESSAGE(r) >> ELSE << >>

OnError(r, configured, outcome) ==
  LET response == IF revision = "index"
                  THEN onErrorIndex(configured, outcome)
                  ELSE onErrorPhased(configured, outcome)
  IN /\ pc[r] = "error"
     /\ calls' = [calls EXCEPT ![r].report = @ + 1]
     /\ reports' = [reports EXCEPT ![r] =
                      @ \o ReportPosts(r, configured, outcome)]
     /\ delivery' = [delivery EXCEPT ![r] =
                       IF configured THEN outcome ELSE "skipped"]
     /\ res' = [res EXCEPT ![r] = response]
     /\ pc' = [pc EXCEPT ![r] = IF response = NoResponse THEN "uncaught"
                                ELSE "done"]
     /\ UNCHANGED << revision, now, nreq, cache, pending, req, local, phase,
                     marks, optimizeInfo, err, hitBy >>

\* ------------------------------------------------------------ environment
\* a detached cache.put runs and succeeds
PutDone(t) ==
  /\ t \in pending
  /\ cache' = (t.key :> [res |-> t.res, by |-> t.by]) @@ cache
  /\ pending' = pending \ {t}
  /\ UNCHANGED << revision, now, nreq, pc, req, local, phase, marks,
                  optimizeInfo, err, res, calls, hitBy, reports, delivery >>

\* a detached cache.put rejects: waitUntil absorbs it
PutFailSurfaced(t) ==
  /\ t \in pending
  /\ pending' = pending \ {t}
  /\ pc' = [pc EXCEPT ![t.by] = "error"]
  /\ err' = [err EXCEPT ![t.by] = "cache.put"]
  /\ UNCHANGED << revision, now, nreq, cache, req, local, phase, marks,
                  optimizeInfo, res, calls, hitBy, reports, delivery >>
PutFail(t) ==
  /\ t \in pending
  /\ pending' = pending \ {t}
  /\ UNCHANGED << revision, now, nreq, cache, pc, req, local, phase, marks,
                  optimizeInfo, err, res, calls, hitBy, reports, delivery >>

\* the cache store drops an entry (its own eviction)
Evict(k) ==
  /\ k \in DOMAIN cache
  /\ cache' = [x \in DOMAIN cache \ {k} |-> cache[x]]
  /\ UNCHANGED << revision, now, nreq, pending, pc, req, local, phase, marks,
                  optimizeInfo, err, res, calls, hitBy, reports, delivery >>

\* ------------------------------------------------------------ specifications
\* Concurrent requests for one image, asked for with and without image/webp.
SomeRequestUrls ==
  { << << "url", << "not-a-url" >> >> >>, << << "url", ValidImageUrl >> >> }
SomeAcceptHeaders ==
  { << AcceptEntry("image/webp", 10), AcceptEntry("image/jpeg", 10),
       AcceptEntry("image/png", 10) >>,
    << AcceptEntry("image/jpeg", 10), AcceptEntry("image/png", 10) >> }
SomeOriginImages ==
  { img \in OriginImages : img.contentType \in {"image/jpeg", "image/gif"} }

Environment ==
  \/ \E t \in pending : PutDone(t)
  \/ \E t \in pending : PutFail(t)
  \/ \E k \in DOMAIN cache : Evict(k)

Next ==
  \/ \E r \in Slots, u \in SomeRequestUrls, a \in SomeAcceptHeaders :
       Receive(r, u, a)
  \/ \E r \in Slots : CacheMatch(r)
  \/ \E r \in Slots : OriginFetch(r, SomeOriginImages)
  \/ \E r \in Slots : Optimize(r)
  \/ \E r \in Slots, configured \in BOOLEAN, outcome \in PostOutcomes :
       OnError(r, configured, outcome)
  \/ Environment

Spec == Init /\ [][Next]_vars

\* One request to a fresh deployment, over every request URL, Accept header
\* and origin answer.
NextOne ==
  \/ \E u \in RequestUrls, a \in AcceptHeaders : Receive(1, u, a)
  \/ CacheMatch(1)
  \/ OriginFetch(1, OriginImages)
  \/ Optimize(1)
  \/ \E configured \in BOOLEAN, outcome \in PostOutcomes :
       OnError(1, configured, outcome)
  \/ Environment

SpecOne == Init /\ [][NextOne]_vars

\* Requests issued one after the other: the next one is sent when the
\* previous ones have been answered.  The detached stores still run on their
\* own.
NextSeq ==
  \/ \E r \in Slots, u \in SomeRequestUrls, a \in SomeAcceptHeaders :
       /\ \A x \in Slots : x < r => Finished(x)
       /\ Receive(r, u, a)
  \/ \E r \in Slots : CacheMatch(r)
  \/ \E r \in Slots : OriginFetch(r, SomeOriginImages)
  \/ \E r \in Slots : Optimize(r)
  \/ \E r \in Slots, configured \in BOOLEAN, outcome \in PostOutcomes :
       OnError(r, configured, outcome)
  \/ Environment

SpecSeq == Init /\ [][NextSeq]_vars

\* Requests issued one after the other on a host that runs every task handed
\* to waitUntil and whose cache.put does not reject; the stores run on their
\* own, beside the later requests, and the cache may still evict.
NextStore ==
  \/ \E r \in Slots, u \in SomeRequestUrls, a \in SomeAcceptHeaders :
       /\ \A x \in Slots : x < r => Finished(x)
       /\ Receive(r, u, a)
  \/ \E r \in Slots : CacheMatch(r)
  \/ \E r \in Slots : OriginFetch(r, SomeOriginImages)
  \/ \E r \in Slots : Optimize(r)
  \/ \E r \in Slots, configured \in BOOLEAN, outcome \in PostOutcomes :
       OnError(r, configured, outcome)
  \/ \E t \in pending : PutDone(t)
  \/ \E k \in DOMAIN cache : Evict(k)

SpecStore ==
  Init /\ [][NextStore]_vars /\ WF_vars(\E t \in pending : PutDone(t))

\* Concurrent requests for one image that the origin serves as image/webp
\* or as image/gif, asked for with and without image/webp.
WebpOriginImages ==
  { [contentType |-> "image/webp", bytes |-> "wbp", byteLength |-> 7],
    [contentType |-> "image/gif", bytes |-> "gif", byteLength |-> 5] }

NextWebp ==
  \/ \E r \in Slots, u \in SomeRequestUrls, a \in SomeAcceptHeaders :
       Receive(r, u, a)
  \/ \E r \in Slots : CacheMatch(r)
  \/ \E r \in Slots : OriginFetch(r, WebpOriginImages)
  \/ \E r \in Slots : Optimize(r)
  \/ \E r \in Slots, configured \in BOOLEAN, outcome \in PostOutcomes :
       OnError(r, configured, outcome)
  \/ Environment

SpecWebp == Init /\ [][NextWebp]_vars

\* ------------------------------------------------------------ properties
Started(r) == pc[r] # "idle"
Stored(r) == \E t \in pending : t.by = r
IsText(response, status, text) ==
  /\ response.status = status
  /\ response.body = [kind |-> "text", text |-> text]

\* a 200 computed by the handler itself, not read from the cache
Miss200(r) == pc[r] = "done" /\ res[r].status = 200 /\ hitBy[r] = 0

\* C1: a request whose `url` is absent, empty or not an absolute URL is
\* answered 400 "valid url is required", and makes no cache lookup, origin
\* fetch, optimizer call, cache store or error report.
C1_BadRequestUrls ==
  { << >>,
    << << "url", << >> >> >>,
    << << "url", << "not-a-url" >> >> >>,
    << << "url", << "https:", "//" >> >>, << "w", << "3", "0", "0" >> >> >> }

C1_InvalidUrlIs400 ==
  \A r \in Slots :
    Started(r) /\ req[r].url \in C1_BadRequestUrls =>
      /\ pc[r] = "done"
      /\ IsText(res[r], 400, "valid url is required")
      /\ calls[r] = NoCalls
      /\ reports[r] = << >>
      /\ ~Stored(r)
      /\ \A k \in DOMAIN cache : cache[k].by # r

C1_Witness ==
  \E r \in Slots :
    /\ pc[r] = "done"
    /\ req[r].url = << << "url", << "not-a-url" >> >> >>
    /\ res[r].status = 400

\* C2: on a cache miss, an origin fetch that rejects and one that answers a
\* non-success status both end in 404 "image not found", with no error report
\* and nothing stored.
C2_FetchFailureIs404 ==
  \A r \in Slots :
    Finished(r) /\ calls[r].fetch = 1 /\ calls[r].read = 0 =>
      /\ IsText(res[r], 404, "image not found")
      /\ reports[r] = << >>
      /\ ~Stored(r)

\* C3: on a cache miss with a source that is neither gif nor svg, the response
\* is 200 with Content-Type image/webp when the flag is true, else image/jpeg
\* for a jpeg source, else image/png.
C3_ContentType(r) ==
  IF local[r].isWebp THEN "image/webp"
  ELSE IF local[r].contentType = "image/jpeg" THEN "image/jpeg"
  ELSE "image/png"

C4_PassThrough ==
  \A r \in Slots :
    calls[r].read = 1 /\ local[r].contentType \in {"image/gif", "image/svg+xml"} =>
      /\ calls[r].optimize = 0
      /\ pc[r] = "done"
      /\ res[r].status = 200
      /\ res[r].body = [kind |-> "source", bytes |-> local[r].srcImage]
      /\ \E img \in OriginImages :
           img.contentType = local[r].contentType /\ img.bytes = local[r].srcImage
      /\ res[r].headers =
           { << "Content-Type", local[r].contentType >>,
             << "Cache-Control", "public, max-age=31536000, immutable" >> }

C4_Witness ==
  \E r \in Slots :
    /\ pc[r] = "done" /\ res[r].status = 200
    /\ local[r].contentType = "image/gif"
    /\ local[r].isWebp
    /\ local[r].widthInt = Number(300)

\* C5: the same request issued twice in sequence, the first answered 200 on
\* a miss: the second is a cache hit, identical to the response of the first
\* and made without origin fetch or optimizer call.
SameRequest(r1, r2) == r1 < r2 /\ Started(r2) /\ req[r1] = req[r2]

C6_HitShortCircuits ==
  [][ \A r \in Slots :
        /\ calls'[r].fetch > calls[r].fetch =>
             /\ pc[r] = "match" /\ calls[r].match = 1
             /\ local[r].cacheKey \notin DOMAIN cache
        /\ ( /\ pc[r] = "match" /\ pc'[r] # "match" /\ err'[r] = "none"
             /\ local[r].cacheKey \in DOMAIN cache )
           => /\ pc'[r] = "done"
              /\ res'[r] = cache[local[r].cacheKey].res
              /\ calls'[r] = [NoCalls EXCEPT !.match = 1]
              /\ cache' = cache /\ pending' = pending
        /\ hitBy[r] # 0 => res'[r] = res[r] /\ calls'[r] = calls[r] ]_vars

C6_Witness ==
  \E r \in Slots :
    /\ pc[r] = "done" /\ hitBy[r] # 0
    /\ local[r].cacheKey \in DOMAIN cache
    /\ res[r] = cache[local[r].cacheKey].res
    /\ calls[r] = [NoCalls EXCEPT !.match = 1]

\* C7: two requests for the same request URL that differ in the negotiated
\* flag have different cache keys: neither is served the entry of the other,
\* and every store goes under the key of the request that made it.
ContentTypeOf(response) == HeaderOf(response, "Content-Type")

C7_VariantsIsolated ==
  /\ \A r1, r2 \in Slots :
       ( /\ local[r1].cacheKey # << >> /\ local[r2].cacheKey # << >>
         /\ req[r1].url = req[r2].url
         /\ local[r1].isWebp # local[r2].isWebp )
       => local[r1].cacheKey # local[r2].cacheKey
  /\ \A r \in Slots :
       hitBy[r] # 0 => /\ req[hitBy[r]].url = req[r].url
                       /\ local[hitBy[r]].isWebp = local[r].isWebp
  /\ \A k \in DOMAIN cache :
       /\ k = local[cache[k].by].cacheKey
       /\ ~local[cache[k].by].isWebp => ContentTypeOf(cache[k].res) # "image/webp"
  /\ \A t \in pending : t.key = local[t.by].cacheKey

C7_Witness ==
  \E r1, r2 \in Slots :
    /\ req[r1].url = req[r2].url
    /\ local[r1].isWebp /\ ~local[r2].isWebp
    /\ local[r1].cacheKey \in DOMAIN cache
    /\ local[r2].cacheKey \in DOMAIN cache
    /\ ContentTypeOf(cache[local[r1].cacheKey].res) = "image/webp"
    /\ ContentTypeOf(cache[local[r2].cacheKey].res) = "image/jpeg"

\* C8: a request in which an exception escapes the pipeline is answered 500
\* "internal server error", whether no endpoint is configured, the report is
\* delivered, or its delivery is answered with a non-success status.  (The
\* index revision words the body by reporting outcome; each of its wordings
\* counts as the internal server error body here.)
C8_ErrorBodies ==
  { "internal server error" } \cup
  IF revision = "index"
  THEN { "internal server error (no webhook url)",
         "internal server error (reported)",
         "internal server error (failed to report)" }
  ELSE {}

C8_ExceptionIs500 ==
  \A r \in Slots :
    ( /\ Finished(r) /\ err[r] # "none"
      /\ delivery[r] \in {"skipped", "ok", "notOk"} )
    => /\ pc[r] = "done"
       /\ res[r].status = 500
       /\ \E text \in C8_ErrorBodies : IsText(res[r], 500, text)

\* C9: a 200 computed on a miss is returned in the step that hands its store
\* to waitUntil; whatever the store does afterwards, the finished request
\* keeps its response, no report is sent for it and no store is added again.
C9_StoreIsDetached ==
  [][ \A r \in Slots :
        /\ ( /\ ~Finished(r) /\ pc'[r] = "done"
             /\ res'[r].status = 200 /\ hitBy'[r] = 0 )
           => /\ PutTask(r, res'[r]) \in pending' \ pending
              /\ calls'[r].put = 1
        /\ Finished(r) =>
             /\ pc'[r] = pc[r] /\ res'[r] = res[r]
             /\ err'[r] = err[r] /\ reports'[r] = reports[r]
             /\ calls'[r] = calls[r]
        /\ \A t \in pending' \ pending :
             ~Finished(t.by) /\ pc'[t.by] = "done" /\ t.res = res'[t.by] ]_vars

C9_Witness ==
  \E r \in Slots :
    /\ Miss200(r)
    /\ Stored(r)
    /\ local[r].cacheKey \notin DOMAIN cache

\* C10: the flag is true exactly when negotiation resolves to image/webp; it
\* is false when it resolves to */*, image/* or the default (no header, or
\* only unsupported types).
C10_Jpeg == << AcceptEntry("image/jpeg", 10), AcceptEntry("image/png", 10) >>
C10_Webp ==
  << AcceptEntry("image/webp", 10), AcceptEntry("image/jpeg", 10),
     AcceptEntry("image/png", 10) >>
C10_AnyFirst == << AcceptEntry("image/webp", 5), AcceptEntry("*/*", 8) >>
C10_ImageFirst == << AcceptEntry("image/*", 10), AcceptEntry("image/webp", 10) >>

C10_FlagIffWebp ==
  \A r \in Slots :
    Started(r) =>
      /\ local[r].isWebp <=> local[r].type = "image/webp"
      /\ local[r].type \in {"*/*", "image/*", "identity"} => ~local[r].isWebp
      /\ req[r].accept \in {NoAcceptHeader, C10_Jpeg} =>
           local[r].type = "identity" /\ ~local[r].isWebp
      /\ req[r].accept = C10_AnyFirst =>
           local[r].type = "*/*" /\ ~local[r].isWebp
      /\ req[r].accept = C10_ImageFirst =>
           local[r].type = "image/*" /\ ~local[r].isWebp
      /\ req[r].accept = C10_Webp => local[r].isWebp

C10_Witness ==
  \E r \in Slots :
    /\ Started(r)
    /\ req[r].accept = C10_AnyFirst
    /\ local[r].type = "*/*"
    /\ ~local[r].isWebp


\* C11: the error reporter runs exactly once for a request in which an
\* exception escaped the pipeline and never for another one: at most one
\* notification POST per request, none for a request answered 400, 404 or 200.
C11_ReportedOnce ==
  \A r \in Slots :
    /\ Len(reports[r]) <= 1
    /\ calls[r].report <= 1
    /\ calls[r].report = 1 <=> (err[r] # "none" /\ Finished(r))
    /\ err[r] = "none" => reports[r] = << >> /\ delivery[r] = "none"
    /\ reports[r] # << >> => calls[r].report = 1 /\ delivery[r] \in PostOutcomes
    /\ (Finished(r) /\ res[r].status \in {400, 404, 200}) =>
         reports[r] = << >> /\ calls[r].report = 0

C11_Witness ==
  \E r \in Slots :
    /\ pc[r] = "done" /\ res[r].status = 500
    /\ err[r] = "optimizeImage"
    /\ calls[r].report = 1
    /\ Len(reports[r]) = 1


\* C12: when an exception escapes the pipeline and no notification endpoint
\* is configured, no POST is made and the request still ends with a 500
\* response: the skipped report is not a further failure.
C12_NoEndpointStill500 ==
  \A r \in Slots :
    delivery[r] = "skipped" =>
      /\ err[r] # "none"
      /\ reports[r] = << >>
      /\ pc[r] = "done"
      /\ res[r] # NoResponse
      /\ res[r].status = 500
      /\ res[r].body.kind = "text"

C12_Witness ==
  \E r \in Slots :
    /\ revision = "phased"
    /\ err[r] = "fetch"
    /\ delivery[r] = "skipped"
    /\ res[r] = InternalServerError


\* C13: the report of an escaped exception names the phase marker's value at
\* the throw and carries the Optimize Info captured so far: none when the
\* exception came before the source body was read, and otherwise the parsed
\* w, the parsed q, the source content type and the source byte length of
\* that request.
C13_PhaseAtThrow(what) ==
  CASE what = "cache.match" -> "fetch image from cache"
    [] what = "fetch" -> "fetch image from origin"
    [] what = "arrayBuffer" -> "parse image"
    [] what = "optimizeImage" -> "optimize image, after copy"

C13_InfoAtThrow(r) ==
  IF err[r] \in {"cache.match", "fetch", "arrayBuffer"}
  THEN << >>
  ELSE LET img == CHOOSE i \in OriginImages : i.bytes = local[r].srcImage
       IN << [ width |-> ParamInt(req[r].url, "w"),
               quality |-> ParamInt(req[r].url, "q"),
               originalFormat |-> DeclaredType(img),
               bytes |-> img.byteLength ] >>

C13_ReportCarriesPhaseAndInfo ==
  \A r \in Slots :
    (revision = "phased" /\ reports[r] # << >>) =>
      /\ reports[r][1].url = req[r].url
      /\ reports[r][1].phase = C13_PhaseAtThrow(err[r])
      /\ reports[r][1].phase = phase[r]
      /\ optimizeInfo[r] = C13_InfoAtThrow(r)
      /\ reports[r][1].info = JSONStringify(C13_InfoAtThrow(r))

C13_Witness ==
  \E r \in Slots :
    /\ revision = "phased"
    /\ err[r] = "optimizeImage"
    /\ reports[r] # << >>
    /\ reports[r][1].phase = "optimize image, after copy"
    /\ reports[r][1].info =
         << << "width", "300" >>, << "quality", "8" >>,
            << "originalFormat", "image/png" >>, << "bytes", "3" >> >>


\* C14: within one request the phase marker only moves forward through the
\* fixed order of Phases and never returns to an earlier phase, and each
\* pipeline action (cache lookup, origin fetch, body read, optimizer call,
\* cache store) is taken only after the previous one has completed.
C14_IsPrefix(s, t) == Len(s) <= Len(t) /\ s = SubSeq(t, 1, Len(s))

C14_InOrder(r) ==
  /\ C14_IsPrefix(marks[r], Phases)
  /\ phase[r] = IF marks[r] = << >> THEN Undefined
                ELSE marks[r][Len(marks[r])]
  /\ revision = "phased" =>
       /\ calls[r].match = 1 => Len(marks[r]) >= 3
       /\ calls[r].fetch = 1 => Len(marks[r]) >= 4
       /\ calls[r].read = 1 => Len(marks[r]) >= 5
       /\ calls[r].optimize = 1 => Len(marks[r]) >= 8
       /\ calls[r].put = 1 => Len(marks[r]) \in {6, 9}
  /\ calls[r].fetch = 1 =>
       calls[r].match = 1 /\ pc[r] # "match" /\ err[r] # "cache.match"
                          /\ hitBy[r] = 0
  /\ calls[r].read = 1 => calls[r].fetch = 1 /\ pc[r] # "fetch"
                                              /\ err[r] # "fetch"
  /\ calls[r].optimize = 1 => calls[r].read = 1 /\ err[r] # "arrayBuffer"
  /\ calls[r].put = 1 =>
       /\ calls[r].read = 1 /\ err[r] = "none"
       /\ calls[r].optimize = 1 => pc[r] = "done"

C14_Forward(r) ==
  /\ C14_IsPrefix(marks[r], marks'[r])
  /\ \A c \in DOMAIN NoCalls : calls[r][c] <= calls'[r][c]

C14_PhaseOnlyForward ==
  /\ [](\A r \in Slots : C14_InOrder(r))
  /\ [][\A r \in Slots : C14_Forward(r)]_vars

C14_Witness ==
  \E r \in Slots :
    /\ marks[r] = Phases
    /\ phase[r] = "optimized image proxy"
    /\ calls[r] = [NoCalls EXCEPT !.match = 1, !.fetch = 1, !.read = 1,
                                  !.optimize = 1, !.put = 1]


\* C15: no step is retried: one request makes at most one cache lookup, one
\* origin fetch, one optimizer call, one cache store and one notification
\* POST, and a failure of one of them ends the request with an error response
\* (404 or 500) instead of a second attempt.
C15_AtMostOnce(r) ==
  /\ \A c \in DOMAIN NoCalls : calls[r][c] <= 1
  /\ Len(reports[r]) <= 1
  /\ Cardinality({ t \in pending : t.by = r }) <= 1

C15_Failed(r) ==
  \/ err[r] # "none"
  \/ delivery[r] = "notOk"
  \/ calls[r].fetch = 1 /\ calls[r].read = 0 /\ Finished(r)

C15_NoRetry ==
  \A r \in Slots :
    /\ C15_AtMostOnce(r)
    /\ (Finished(r) /\ C15_Failed(r) /\ delivery[r] # "rejects") =>
         /\ res[r] # NoResponse
         /\ res[r].status \in {404, 500}


\* C16: under any interleaving of concurrent requests the phase marker and
\* the Optimize Info belong to one request: a step of one request leaves the
\* marker and the Optimize Info (and every other per-request value) of the
\* other requests as they were, and a report sent for a request carries that
\* request's URL, phase and Optimize Info.
C16_Untouched(r) ==
  /\ phase'[r] = phase[r]
  /\ marks'[r] = marks[r]
  /\ optimizeInfo'[r] = optimizeInfo[r]
  /\ req'[r] = req[r]
  /\ local'[r] = local[r]
  /\ err'[r] = err[r]
  /\ reports'[r] = reports[r]

C16_OwnReport(r) ==
  \A i \in 1..Len(reports[r]) :
    /\ reports[r][i].url = req[r].url
    /\ reports[r][i].err = err[r]
    /\ revision = "phased" =>
         /\ reports[r][i].phase = phase[r]
         /\ reports[r][i].info = JSONStringify(optimizeInfo[r])

C16_PerRequest ==
  /\ [](\A r \in Slots : C16_OwnReport(r))
  /\ [][ /\ Cardinality({ r \in Slots : pc'[r] # pc[r] }) <= 1
         /\ \A r \in Slots : pc'[r] = pc[r] => C16_Untouched(r) ]_vars

\* a report was sent for a request that began after another one which is
\* still waiting for the optimizer, in another phase
C16_Witness ==
  \E r1, r2 \in Slots :
    /\ r2 < r1
    /\ revision = "phased"
    /\ pc[r2] = "optimize"
    /\ optimizeInfo[r2] # << >>
    /\ reports[r1] # << >>
    /\ reports[r1][1].phase = "fetch image from origin"
    /\ reports[r1][1].info = JSONStringify(<< >>)


\* C17: when the host runs the detached task and the store does not fail,
\* every 200 computed on a miss, transformed or passed through, is eventually
\* in the cache under the key of its request, and the stored copy is the
\* response that was returned to the client.
C17_StoredCopy(r) ==
  /\ local[r].cacheKey \in DOMAIN cache
  /\ cache[local[r].cacheKey] = [res |-> res[r], by |-> r]

\* the 200 has been returned and its store is with the host, not yet run
C17_Returned(r) == Miss200(r) /\ Stored(r)

C17_EventuallyStored ==
  \A r \in Slots : C17_Returned(r) ~> C17_StoredCopy(r)

C17_Witness ==
  \E r1, r2 \in Slots :
    /\ r1 # r2
    /\ Miss200(r1) /\ C17_StoredCopy(r1) /\ calls[r1].optimize = 1
    /\ Miss200(r2) /\ C17_StoredCopy(r2) /\ calls[r2].optimize = 0


\* C18: the width and the quality handed to the optimizer are the integer
\* parsed from w / q when the parameter is present and numeric, and undefined
\* (the library default) when it is absent; a value that parses to NaN is
\* treated as absent, so the optimizer never receives NaN.
C18_Handed(reqUrl, name) ==
  IF ~HasQuery(reqUrl, name) THEN UndefinedNumber
  ELSE IF parseInt(Query(reqUrl, name)) = NaN THEN UndefinedNumber
  ELSE parseInt(Query(reqUrl, name))

C18_NeverNaN ==
  \A r \in Slots :
    calls[r].optimize = 1 =>
      LET args == optimizeImage(local[r].srcImage, local[r].widthInt,
                                local[r].qualityInt, local[r].format)
      IN /\ args.width = C18_Handed(req[r].url, "w")
         /\ args.quality = C18_Handed(req[r].url, "q")
         /\ args.width # NaN
         /\ args.quality # NaN


\* C19: every entry of the cache, and every store handed to the host, is a
\* 200 response with Cache-Control "public, max-age=31536000, immutable"; a
\* request that ends in 400, 404 or 500 (or without a response) schedules no
\* store, so no error response is ever served from the cache.
C19_Cacheable(response) ==
  /\ response.status = 200
  /\ HeaderOf(response, "Cache-Control") = "public, max-age=31536000, immutable"
  /\ response.body.kind \in {"source", "optimized"}

C19_ErrorEnd(r) ==
  Finished(r) /\ (res[r] = NoResponse \/ res[r].status \in {400, 404, 500})

C19_OnlyForever200Cached ==
  /\ \A k \in DOMAIN cache : C19_Cacheable(cache[k].res)
  /\ \A t \in pending : C19_Cacheable(t.res)
  /\ \A r \in Slots :
       /\ C19_ErrorEnd(r) =>
            /\ calls[r].put = 0
            /\ ~Stored(r)
            /\ \A k \in DOMAIN cache : cache[k].by # r
       /\ hitBy[r] # 0 => C19_Cacheable(res[r])

\* a request that missed ended in 404 while the cache holds the 200 another
\* request stored under the same key
C19_Witness ==
  \E r1, r2 \in Slots :
    /\ r1 # r2
    /\ pc[r2] = "done" /\ res[r2].status = 404
    /\ local[r2].cacheKey \in DOMAIN cache
    /\ cache[local[r2].cacheKey].by = r1
    /\ Miss200(r1)


\* C20: under any interleaving of requests and detached cache writes, a
\* request whose negotiated flag is false never receives a response with
\* Content-Type image/webp, on a miss or from the cache; that is, no entry
\* stored under a key whose appended flag is webp=false has the content type
\* image/webp.
C20_KeyFlag(k) == k[Len(k)]

C20_NoWebpUnasked ==
  /\ \A r \in Slots :
       (Finished(r) /\ res[r] # NoResponse /\ ~local[r].isWebp) =>
         ContentTypeOf(res[r]) # "image/webp"
  /\ \A k \in DOMAIN cache :
       C20_KeyFlag(k) = << "webp", << "false" >> >> =>
         ContentTypeOf(cache[k].res) # "image/webp"
  /\ \A t \in pending :
       C20_KeyFlag(t.key) = << "webp", << "false" >> >> =>
         ContentTypeOf(t.res) # "image/webp"

\* a request without image/webp is served from the cache the png made of a
\* webp source
C20_Witness ==
  \E r1, r2 \in Slots :
    /\ hitBy[r2] = r1
    /\ ~local[r2].isWebp
    /\ local[r1].contentType = "image/webp"
    /\ ContentTypeOf(res[r2]) = "image/png"

====
